---- MODULE Spec2Model ----
(***************************************************************************)
(* A model of trello-to-slack: the history resolver of src/src/trello.rs   *)
(* (moved_to_list_date, creation_date_from_card_id) and the two actions of *)
(* src/src/main.rs (pending_reviews, inactive_cards) with their            *)
(* aggregators, composers and dispatch loops.                              *)
(*                                                                         *)
(* Timestamps are Unix seconds.  A Rust String is the sequence of its      *)
(* UTF-8 bytes, each byte a one-character token; the two bytes of a        *)
(* two-byte character are the tokens UTF8_LEAD and UTF8_CONT.              *)
(***************************************************************************)
EXTENDS Integers, Sequences, FiniteSets, TLC

VARIABLES
    debug_assertions,   \* cfg!(debug_assertions): the build profile
    r_card,             \* resolver harness: the card handed to moved_to_list_date
    r_result,           \* resolver harness: what moved_to_list_date returned
    c_composer,         \* composer harness: which composer is called
    c_items,            \* composer harness: the Vec handed to the composer
    c_message,          \* composer harness: what the composer returned
    action,             \* config.action
    review_lists,       \* config.trello.review_lists
    inactive_cards_lists, \* config.trello.inactive_cards_lists
    trello_to_slack_mapping, \* main: TrelloUser -> SlackUser, from config.user_mapping
    trello_member_id_to_username, \* main: member id -> TrelloUser
    target_lists,       \* the lists in scope, in board order
    pc,                 \* where the run is
    error,              \* the Err the run ended with, or None
    list_idx,           \* for list in target_lists
    cards,              \* the cards get_cards returned for the current list
    card_idx,           \* for card in &cards
    buckets,            \* HashMap<TrelloUser, Vec<PendingReview | InactiveCard>>
    todo,               \* dispatch loop: the map entries not yet visited
    sent,               \* the messages the chat service accepted, in order
    requests,           \* the kinds of board-service requests made
    cards_seen,         \* how many cards the board service has returned so far
    logged              \* the kinds of error!() lines logged

----------------------------------------------------------------------------
(* Bounds of the model *)

\* longest action log of a card
MaxActions == 3
\* action timestamps of the resolver harness are 1..MaxDate
MaxDate == 3
\* longest enumerated card identifier, in characters
MaxIdChars == 8

----------------------------------------------------------------------------
(* Option<T>, Result<T> and panics *)

None == "None"

Ok(date, via) == [kind |-> "Ok", date |-> date, via |-> via]
Err(why) == [kind |-> "Err", date |-> 0, via |-> why]
Panic(why) == [kind |-> "Panic", date |-> 0, via |-> why]
NotCalled == [kind |-> "NotCalled", date |-> 0, via |-> "none"]

----------------------------------------------------------------------------
(* Strings as UTF-8 byte sequences *)

UTF8_LEAD == "C3"
UTF8_CONT == "A9"

\* str::len(): the length in bytes
StrLen(s) == Len(s)

\* str::is_char_boundary(index): the start, the end, or a byte that is not a
\* continuation byte
is_char_boundary(s, index) ==
    \/ index = 0
    \/ index = Len(s)
    \/ index < Len(s) /\ s[index + 1] # UTF8_CONT

\* the number of characters (str::chars().count())
CharCount(s) == Cardinality({i \in 1..Len(s) : s[i] # UTF8_CONT})

\* char::to_digit(16) of a byte; -1 stands for None
HexVal(b) ==
    CASE b = "0" -> 0 [] b = "1" -> 1 [] b = "2" -> 2 [] b = "3" -> 3
      [] b = "4" -> 4 [] b = "5" -> 5 [] b = "6" -> 6 [] b = "7" -> 7
      [] b = "8" -> 8 [] b = "9" -> 9
      [] b = "a" -> 10 [] b = "b" -> 11 [] b = "c" -> 12
      [] b = "d" -> 13 [] b = "e" -> 14 [] b = "f" -> 15
      [] b = "A" -> 10 [] b = "B" -> 11 [] b = "C" -> 12
      [] b = "D" -> 13 [] b = "E" -> 14 [] b = "F" -> 15
      [] OTHER -> -1

RECURSIVE ParseDigits(_, _, _)
\* the digit loop of from_str_radix: result = result * radix + digit,
\* InvalidDigit (-1) on the first byte that is no digit
ParseDigits(digits, i, acc) ==
    IF i > Len(digits) THEN acc
    ELSE IF HexVal(digits[i]) < 0 THEN -1
    ELSE ParseDigits(digits, i + 1, acc * 16 + HexVal(digits[i]))

\* u32::from_str_radix(src, 16): an optional leading '+', then hex digits
\* only; -1 stands for Err(ParseIntError).  Eight bytes never overflow u32.
from_str_radix(src) ==
    IF Len(src) = 0 THEN -1
    ELSE IF src[1] = "+"
         THEN IF Len(src) = 1 THEN -1 ELSE ParseDigits(Tail(src), 1, 0)
         ELSE ParseDigits(src, 1, 0)

----------------------------------------------------------------------------
(* trello.rs: the history resolver *)

\* util.rs: actions.windows(2).all(|w| w[0].date >= w[1].date)
is_sorted_descending(actions) ==
    \A i \in 1..(Len(actions) - 1) : actions[i].date >= actions[i + 1].date

\* OffsetDateTime::from_unix_timestamp(i64::from(u32)): every u32 is in the
\* range of OffsetDateTime, so the conversion never fails
creation_date_from_card_id(card_id) ==
    IF StrLen(card_id) < 8 THEN Err("too short")
    ELSE IF ~is_char_boundary(card_id, 8) THEN Panic("not a char boundary")
    ELSE LET timestamp_int == from_str_radix(SubSeq(card_id, 1, 8))
         IN  IF timestamp_int < 0 THEN Err("ParseIntError")
             ELSE Ok(timestamp_int, "id")

\* one arm of the match of moved_to_list_date: does this action return?
ActionMatches(a, card) ==
    CASE a.type = "updateCard" ->
             a.list_after # None /\ a.list_after = card.id_list
      [] a.type = "createCard" ->
             a.card_id_list # None /\ a.card_id_list = card.id_list
      [] OTHER -> FALSE

RECURSIVE ScanActions(_, _)
\* for action in &card.actions { ... return Ok(action.date) ... }, then the
\* fallback
ScanActions(card, i) ==
    IF i > Len(card.actions) THEN creation_date_from_card_id(card.id)
    ELSE IF ActionMatches(card.actions[i], card)
         THEN Ok(card.actions[i].date, card.actions[i].type)
         ELSE ScanActions(card, i + 1)

\* debug_assert!(is_sorted_descending(..)) is compiled only into a build
\* with debug assertions, where it panics on a log that is not sorted
moved_to_list_date(card, debug) ==
    IF debug /\ ~is_sorted_descending(card.actions)
    THEN Panic("Card actions are not sorted descending by date")
    ELSE ScanActions(card, 1)

\* mutant: the date of the newest action of the history, when there is one
Mutant_last_update_from_card(card) ==
    IF card.actions = <<>> THEN card.date_last_activity ELSE card.actions[1].date

\* trello.rs: last_update_from_card
last_update_from_card(card) == card.date_last_activity

----------------------------------------------------------------------------
(* Inputs of the resolver harness *)

ListIds == {"L1", "L2"}
ActionDates == 1..MaxDate

\* the action kinds the resolver distinguishes, with the fields it reads
Actions ==
    [type : {"updateCard"}, date : ActionDates,
     list_after : ListIds \cup {None}, card_id_list : {None}]
    \cup
    [type : {"createCard"}, date : ActionDates,
     list_after : {None}, card_id_list : ListIds \cup {None}]
    \cup
    [type : {"other"}, date : ActionDates,
     list_after : {None}, card_id_list : {None}]

SeqsUpTo(S, n) == UNION {[1..k -> S] : k \in 0..n}

\* the action logs of at most n actions
Logs(n) == SeqsUpTo(Actions, n)

\* the identifier of the test it_extracts_creation_date_from_card_id
TestCardId ==
    <<"4","d","5","e","a","6","2","f","d","7","6","a","a","1","1","3",
      "6","0","0","0","0","0","0","c">>
\* the same leading 8 characters in upper case, another tail
UpperCardId == <<"4","D","5","E","A","6","2","F","z">>
ShortCardId == <<"4","d","5","e","a","6","2">>
PlusCardId == <<"+","1","2","3","4","5","6","7","d","7">>

SampleCardIds == {TestCardId, UpperCardId, ShortCardId, PlusCardId}

\* characters of the enumerated identifiers: a hex digit, a sign, a non-hex
\* letter and a two-byte character
IdChars == {<<"1">>, <<"+">>, <<"g">>, <<UTF8_LEAD, UTF8_CONT>>}

RECURSIVE Flatten(_)
Flatten(ss) == IF ss = <<>> THEN <<>> ELSE Head(ss) \o Flatten(Tail(ss))

\* the identifiers of at most n characters
EnumCardIds(n) == {Flatten(cs) : cs \in SeqsUpTo(IdChars, n)}

\* the cards handed to the resolver: the sample identifiers with every log,
\* and every enumerated identifier with the empty log
ResolverCards(max_actions, max_id_chars) ==
    [id : SampleCardIds, id_list : ListIds, actions : Logs(max_actions)]
    \cup
    [id : EnumCardIds(max_id_chars), id_list : {"L1"}, actions : {<<>>}]

----------------------------------------------------------------------------
run_vars ==
    <<action, review_lists, inactive_cards_lists, trello_to_slack_mapping,
      trello_member_id_to_username, target_lists, pc, error, list_idx, cards,
      card_idx, buckets, todo, sent, requests, cards_seen, logged>>

harness_vars == <<r_card, r_result, c_composer, c_items, c_message>>

vars == <<debug_assertions, harness_vars, run_vars>>

\* the run does not take part in the resolver harness
RunIdle ==
    /\ action = "InactiveCards"
    /\ review_lists = {}
    /\ inactive_cards_lists = {}
    /\ trello_to_slack_mapping = <<>>
    /\ trello_member_id_to_username = <<>>
    /\ target_lists = <<>>
    /\ pc = "idle"
    /\ error = None
    /\ list_idx = 1
    /\ cards = <<>>
    /\ card_idx = 1
    /\ buckets = <<>>
    /\ todo = {}
    /\ sent = <<>>
    /\ requests = {}
    /\ cards_seen = 0
    /\ logged = {}

\* the composer harness does not take part
ComposeIdle ==
    /\ c_composer = None
    /\ c_items = <<>>
    /\ c_message = NotCalled

InitResolve ==
    /\ debug_assertions \in BOOLEAN
    /\ r_card \in ResolverCards(MaxActions, MaxIdChars)
    /\ r_result = NotCalled
    /\ ComposeIdle
    /\ RunIdle

\* a call of moved_to_list_date(&card)
Resolve ==
    /\ r_result = NotCalled
    /\ r_result' = moved_to_list_date(r_card, debug_assertions)
    /\ UNCHANGED <<debug_assertions, r_card, c_composer, c_items, c_message,
                   run_vars>>

NextResolve == Resolve

SpecResolve == InitResolve /\ [][NextResolve]_vars

----------------------------------------------------------------------------
(* Claims about the history resolver, checked under SpecResolve *)

SetMax(S) == CHOOSE x \in S : \A y \in S : y <= x

\* the update-move actions into the card's current list
MovesIntoCurrentList(card) ==
    {i \in 1..Len(card.actions) :
        /\ card.actions[i].type = "updateCard"
        /\ card.actions[i].list_after = card.id_list}

\* the creation actions whose creation-time list is the card's current list
CreationsInCurrentList(card) ==
    {i \in 1..Len(card.actions) :
        /\ card.actions[i].type = "createCard"
        /\ card.actions[i].card_id_list = card.id_list}

NoMatchingAction(card) ==
    MovesIntoCurrentList(card) = {} /\ CreationsInCurrentList(card) = {}

\* the first 8 characters of the identifier exist and are hexadecimal digits
LeadingHex(card_id) ==
    /\ CharCount(card_id) >= 8
    /\ \A i \in 1..8 : HexVal(card_id[i]) >= 0

\* the first 8 characters read as a big-endian hexadecimal number
LeadingHexValue(card_id) ==
    LET d(i) == HexVal(card_id[i])
    IN  ((((((d(1) * 16 + d(2)) * 16 + d(3)) * 16 + d(4)) * 16 + d(5)) * 16
            + d(6)) * 16 + d(7)) * 16 + d(8)

\* C1: for a card whose log holds an update-move action into the card's
\* current list, moved_to_list_date returns the timestamp of the most recent
\* such action, whatever the physical order of the log.
C1_MostRecentMoveAnyOrder ==
    (r_result # NotCalled /\ MovesIntoCurrentList(r_card) # {})
        => /\ r_result.kind = "Ok"
           /\ r_result.date =
                SetMax({r_card.actions[i].date : i \in MovesIntoCurrentList(r_card)})

\* C2: for a card whose log holds a creation action in the card's current
\* list and no update-move into it, moved_to_list_date returns the timestamp
\* of a creation action in the current list and does not fall back to the
\* identifier; other actions are skipped without error.
C2_CreationTimestamp ==
    (/\ r_result # NotCalled
     /\ CreationsInCurrentList(r_card) # {}
     /\ MovesIntoCurrentList(r_card) = {})
        => /\ r_result.kind = "Ok"
           /\ r_result.via = "createCard"
           /\ r_result.date \in
                {r_card.actions[i].date : i \in CreationsInCurrentList(r_card)}

\* C3: for a card whose log is empty or holds no action matching the current
\* list, and whose identifier starts with 8 hexadecimal digits,
\* moved_to_list_date returns those 8 digits read as a Unix timestamp.
C3_IdentifierFallback ==
    (/\ r_result # NotCalled
     /\ NoMatchingAction(r_card)
     /\ LeadingHex(r_card.id))
        => r_result = Ok(LeadingHexValue(r_card.id), "id")

\* C4: when the fallback is used and the identifier is shorter than 8
\* characters or its first 8 characters are not all hexadecimal digits,
\* moved_to_list_date returns an error and never a timestamp.
C4_DecodeFailureIsError ==
    (/\ r_result # NotCalled
     /\ NoMatchingAction(r_card)
     /\ ~LeadingHex(r_card.id))
        => r_result.kind = "Err"

----------------------------------------------------------------------------
(* main.rs: elapsed time *)

\* seconds in a day and in a week (time::Duration::whole_days, whole_weeks)
SecondsPerDay == 86400
SecondsPerWeek == 604800

\* i64 division, truncating toward zero
TruncDiv(a, b) == IF a >= 0 THEN a \div b ELSE -((-a) \div b)

\* (now - reference).whole_days() and .whole_weeks(), on whole seconds
whole_days(duration) == TruncDiv(duration, SecondsPerDay)
whole_weeks(duration) == TruncDiv(duration, SecondsPerWeek)

\* usize is 64 bits wide; the model's integers are 32 bits wide, so the
\* width is scaled to 30 bits: `v as usize` is v modulo 2^30, and a negative
\* v wraps to the top of the range as it does at 64 bits
UsizeModulus == 1073741824
USIZE_MAX == UsizeModulus - 1
AsUsize(v) == v % UsizeModulus

INACTIVE_WEEKS_THRESHOLD == 2

\* (OffsetDateTime::now_utc() - last_update).whole_days() as usize
pending_since_days(t, last_update) == AsUsize(whole_days(t - last_update))

\* (OffsetDateTime::now_utc() - in_list_since).whole_weeks() as usize
pending_since_weeks(t, in_list_since) == AsUsize(whole_weeks(t - in_list_since))

\* mutant: the threshold itself counts as not inactive enough
Mutant_NotInactiveEnough(weeks) == weeks <= INACTIVE_WEEKS_THRESHOLD

\* if inactive_card.pending_since_weeks < INACTIVE_WEEKS_THRESHOLD { continue }
NotInactiveEnough(weeks) == weeks < INACTIVE_WEEKS_THRESHOLD

----------------------------------------------------------------------------
(* main.rs: user attribution and the aggregators *)

RECURSIVE Mutant_trello_users(_, _)
\* mutant: an identifier that is not in the directory is kept as a user
Mutant_trello_users(id_members, directory) ==
    IF id_members = <<>> THEN <<>>
    ELSE IF Head(id_members) \in DOMAIN directory
         THEN <<directory[Head(id_members)]>>
                  \o Mutant_trello_users(Tail(id_members), directory)
         ELSE <<Head(id_members)>>
                  \o Mutant_trello_users(Tail(id_members), directory)

RECURSIVE trello_users(_, _)
\* card.id_members.iter().filter_map(|id| directory.get(id).cloned()).collect()
trello_users(id_members, directory) ==
    IF id_members = <<>> THEN <<>>
    ELSE IF Head(id_members) \in DOMAIN directory
         THEN <<directory[Head(id_members)]>>
                  \o trello_users(Tail(id_members), directory)
         ELSE trello_users(Tail(id_members), directory)

\* the member ids for which error!("Could not find Trello user ..") is logged
UnknownMembers(id_members, directory) ==
    {id_members[i] : i \in 1..Len(id_members)} \ DOMAIN directory

\* mutant: a new entry is left empty
Mutant_EntryPush(map, trello_user, item) ==
    IF trello_user \in DOMAIN map
    THEN [map EXCEPT ![trello_user] = Append(@, item)]
    ELSE map @@ (trello_user :> <<>>)

\* map.entry(trello_user).or_default().push(item)
EntryPush(map, trello_user, item) ==
    IF trello_user \in DOMAIN map
    THEN [map EXCEPT ![trello_user] = Append(@, item)]
    ELSE map @@ (trello_user :> <<item>>)

RECURSIVE PushAll(_, _, _)
\* for trello_user in trello_users { map.entry(..).or_default().push(..) }
PushAll(map, users, item) ==
    IF users = <<>> THEN map
    ELSE PushAll(EntryPush(map, Head(users), item), Tail(users), item)

PendingReview(card, t) ==
    [card_name |-> card.name, card_url |-> card.url,
     pending_since_days |-> pending_since_days(t, last_update_from_card(card))]

InactiveCard(card, in_list_since, t) ==
    [card_name |-> card.name, card_url |-> card.url,
     pending_since_weeks |-> pending_since_weeks(t, in_list_since)]

\* the body of `for card in &cards` of get_pending_reviews: the map after it
PendingReviewsOfCard(map, card, directory, t) ==
    LET users == trello_users(card.id_members, directory)
    IN  IF users = <<>> THEN map
        ELSE PushAll(map, users, PendingReview(card, t))

\* mutant: a card whose history does not resolve is skipped over
Mutant_HistoryOutcome(resolved) ==
    IF resolved.kind = "Panic" THEN "Panic" ELSE "Continue"

\* what moved_to_list_date(card)? does in get_inactive_cards: the error is
\* returned from get_inactive_cards
HistoryOutcome(resolved) ==
    CASE resolved.kind = "Ok" -> "Continue"
      [] resolved.kind = "Err" -> "ReturnErr"
      [] OTHER -> "Panic"

\* the body of `for card in &cards` of get_inactive_cards: how it ends
\* ("Continue", "ReturnErr", "Panic") and the map after it
InactiveCardsOfCard(map, card, directory, t, debug) ==
    LET users == trello_users(card.id_members, directory)
        resolved == moved_to_list_date(card, debug)
    IN  IF users = <<>> THEN [ends |-> "Continue", map |-> map]
        ELSE IF HistoryOutcome(resolved) # "Continue"
             THEN [ends |-> HistoryOutcome(resolved), map |-> map]
        ELSE IF NotInactiveEnough(pending_since_weeks(t, resolved.date))
             THEN [ends |-> "Continue", map |-> map]
        ELSE [ends |-> "Continue",
              map |-> PushAll(map, users, InactiveCard(card, resolved.date, t))]

----------------------------------------------------------------------------
(* sorting: slice::sort_by_key is a stable sort, ascending by key *)

\* mutant: of two elements with equal keys the later one comes first
Mutant_Rank(keys, i) ==
    1 + Cardinality({j \in 1..Len(keys) :
                        keys[j] < keys[i] \/ (keys[j] = keys[i] /\ j > i)})

\* the place of element i in the sorted sequence
Rank(keys, i) ==
    1 + Cardinality({j \in 1..Len(keys) :
                        keys[j] < keys[i] \/ (keys[j] = keys[i] /\ j < i)})

StableSortByKey(s, keys) ==
    [p \in 1..Len(s) |-> s[CHOOSE i \in 1..Len(s) : Rank(keys, i) = p]]

\* trello.rs get_cards: card.actions.first().map(|action| action.date);
\* Option orders None before every Some, -1 stands for None
FirstActionDate(card) ==
    IF card.actions = <<>> THEN -1 ELSE card.actions[1].date

\* cards.sort_by_key(|card| card.actions.first().map(|action| action.date))
SortCards(cs) == StableSortByKey(cs, [i \in 1..Len(cs) |-> FirstActionDate(cs[i])])

\* pending_reviews.sort_by_key(|review| usize::MAX - review.pending_since_days)
SortPendingReviews(items) ==
    StableSortByKey(items,
        [i \in 1..Len(items) |-> USIZE_MAX - items[i].pending_since_days])

\* inactive_cards.sort_by_key(|card| usize::MAX - card.pending_since_weeks)
SortInactiveCards(items) ==
    StableSortByKey(items,
        [i \in 1..Len(items) |-> USIZE_MAX - items[i].pending_since_weeks])

\* usize::saturating_sub
saturating_sub(a, b) == IF a >= b THEN a - b ELSE 0

\* the urgency marker is one character of 4 bytes of UTF-8
SirenLen == 4

\* str::repeat(n): the number of markers of the result; repeat panics with
\* "capacity overflow" when self.len().checked_mul(n) overflows usize, -1
\* stands for the panic
repeat(n) == IF n > USIZE_MAX \div SirenLen THEN -1 ELSE n

\* mutant: the plural ending of the noun is written for one item too
Mutant_PendingReviewsHeader(len) ==
    [number |-> len,
     s1 |-> IF len = 1 THEN "s" ELSE "",
     s2 |-> IF len >= 1 THEN "s" ELSE ""]

\* "Du hast {} ausstehende{s1} Review{s2}:": the values of the placeholders
PendingReviewsHeader(len) ==
    [number |-> len,
     s1 |-> IF len = 1 THEN "s" ELSE "",
     s2 |-> IF len > 1 THEN "s" ELSE ""]

\* "Folgende {number} Karte{n} {is} seit laengerer Zeit im Sprint:"
InactiveCardsHeader(len) ==
    [number |-> len,
     n |-> IF len > 1 THEN "n" ELSE "",
     is |-> IF len > 1 THEN "sind" ELSE "ist"]

\* the markers of the line of a pending review: none without the
\* " - Wartet seit .." part, which is written from 1 day on
PendingReviewSirens(days) ==
    IF days >= 1 THEN repeat(saturating_sub(days, 1)) ELSE 0

\* the markers of the line of an inactive card
InactiveCardSirens(weeks) ==
    repeat(saturating_sub(weeks, INACTIVE_WEEKS_THRESHOLD))

\* what a composer returns: Ok(markdown_text), the text being its header, the
\* items in the order of their lines and the number of markers of each line
Message(header, lines, sirens) ==
    IF \E k \in 1..Len(sirens) : sirens[k] = -1
    THEN Panic("capacity overflow")
    ELSE [kind |-> "Ok", count |-> header.number, header |-> header,
          lines |-> lines, sirens |-> sirens]

\* main.rs compose_pending_reviews_message
compose_pending_reviews_message(pending_reviews) ==
    LET lines == SortPendingReviews(pending_reviews)
    IN  Message(PendingReviewsHeader(Len(lines)), lines,
                [k \in 1..Len(lines) |->
                    PendingReviewSirens(lines[k].pending_since_days)])

\* main.rs compose_inactive_cards_message
compose_inactive_cards_message(inactive_cards) ==
    LET lines == SortInactiveCards(inactive_cards)
    IN  Message(InactiveCardsHeader(Len(lines)), lines,
                [k \in 1..Len(lines) |->
                    InactiveCardSirens(lines[k].pending_since_weeks)])

----------------------------------------------------------------------------
(* Inputs of a run: the configuration and the board-service snapshot *)

\* most cards of the board snapshot, over all lists in scope
MaxCards == 3
\* how far the wall clock advances during a run, in seconds
MaxDrift == 1

\* OffsetDateTime::now_utc() when the run starts, and what it may return
\* during the run
NowStart == 1700000000
Clock == NowStart..(NowStart + MaxDrift)

BoardLists == <<[id |-> "L1", name |-> "Review"], [id |-> "L2", name |-> "Sprint"]>>
Scopes == {{}, {"Review"}, {"Review", "Sprint"}}

\* user mappings: both board users have a chat identity, or only alice
Mappings == {("alice" :> "U_ALICE") @@ ("bob" :> "U_BOB"), ("alice" :> "U_ALICE")}

\* member directories: m3 is on no board; m1 and m2 are two users, or two
\* member ids with one username
Directories == {("m1" :> "alice") @@ ("m2" :> "bob"),
                ("m1" :> "alice") @@ ("m2" :> "alice")}

OtherList(l) == IF l = "L1" THEN "L2" ELSE "L1"

MoveInto(l, date) ==
    [type |-> "updateCard", date |-> date, list_after |-> l, card_id_list |-> None]
CreatedIn(l, date) ==
    [type |-> "createCard", date |-> date, list_after |-> None, card_id_list |-> l]

\* the cards a list l may hold: members, last activity, history, identifier
CardSamples(l) ==
    { \* one member; 3 days since the last activity; no history: in the list
      \* since the time of the identifier
      [id_members |-> <<"m1">>, date_last_activity |-> NowStart - 3 * SecondsPerDay,
       actions |-> <<>>, id |-> TestCardId],
      \* two members; touched right now, created in the list exactly 2 weeks ago
      [id_members |-> <<"m1", "m2">>, date_last_activity |-> NowStart,
       actions |-> <<CreatedIn(l, NowStart - 2 * SecondsPerWeek)>>, id |-> TestCardId],
      \* the same member twice; one second short of a day and of 2 weeks
      [id_members |-> <<"m1", "m1">>,
       date_last_activity |-> NowStart - SecondsPerDay + 1,
       actions |-> <<MoveInto(l, NowStart - 2 * SecondsPerWeek + 1)>>, id |-> TestCardId],
      \* only a member that is on no board; no history, undecodable identifier
      [id_members |-> <<"m3">>, date_last_activity |-> NowStart - SecondsPerDay,
       actions |-> <<>>, id |-> ShortCardId],
      \* last activity a day in the future; no history, undecodable identifier
      [id_members |-> <<"m2">>, date_last_activity |-> NowStart + SecondsPerDay,
       actions |-> <<>>, id |-> ShortCardId],
      \* an unknown and a known member; history oldest first: moved away
      \* 4 weeks ago, moved back 3 weeks ago
      [id_members |-> <<"m3", "m2">>, date_last_activity |-> NowStart - SecondsPerDay,
       actions |-> <<MoveInto(OtherList(l), NowStart - 4 * SecondsPerWeek),
                     MoveInto(l, NowStart - 3 * SecondsPerWeek)>>, id |-> TestCardId] }

\* the k-th card of the response for list l
MkCard(l, k, sample) ==
    [name |-> <<l, k>>, url |-> <<"https://trello.com/c", l, k>>, id_list |-> l,
     id |-> sample.id, id_members |-> sample.id_members,
     date_last_activity |-> sample.date_last_activity, actions |-> sample.actions]

\* the JSON responses of GET /1/lists/{list_id}/cards with at most most cards
Responses(l, most) ==
    UNION {{[k \in 1..n |-> MkCard(l, k, f[k])] : f \in [1..n -> CardSamples(l)]}
              : n \in 0..most}

RECURSIVE FilterLists(_, _)
\* lists.iter().filter(|list| scope.contains(&list.name))
FilterLists(lists, scope) ==
    IF lists = <<>> THEN <<>>
    ELSE IF Head(lists).name \in scope
         THEN <<Head(lists)>> \o FilterLists(Tail(lists), scope)
         ELSE FilterLists(Tail(lists), scope)

----------------------------------------------------------------------------
(* A run of main *)

IdleCard == [id |-> <<>>, id_list |-> "L1", actions |-> <<>>]

Init ==
    /\ debug_assertions \in BOOLEAN
    /\ r_card = IdleCard
    /\ r_result = NotCalled
    /\ ComposeIdle
    /\ action \in {"PendingReviews", "InactiveCards"}
    /\ review_lists \in Scopes
    /\ inactive_cards_lists \in Scopes
    \* main reads only the scope of the configured action: the other one is
    \* any one value
    /\ action = "PendingReviews" => inactive_cards_lists = {"Review"}
    /\ action = "InactiveCards" => review_lists = {"Review"}
    /\ trello_to_slack_mapping \in Mappings
    /\ trello_member_id_to_username = <<>>
    /\ target_lists = <<>>
    /\ pc = "main"
    /\ error = None
    /\ list_idx = 1
    /\ cards = <<>>
    /\ card_idx = 1
    /\ buckets = <<>>
    /\ todo = {}
    /\ sent = <<>>
    /\ requests = {}
    /\ cards_seen = 0
    /\ logged = {}

config_unchanged ==
    UNCHANGED <<debug_assertions, harness_vars, action, review_lists,
                inactive_cards_lists, trello_to_slack_mapping>>

\* the run ends with Err(why)
Fails(why) == pc' = "failed" /\ error' = why

\* main, up to the call of pending_reviews or inactive_cards: get_members and
\* get_lists for the board, then the action's scope
Main ==
    /\ pc = "main"
    /\ \E members_ok \in BOOLEAN, lists_ok \in BOOLEAN, directory \in Directories :
        IF ~members_ok
        THEN /\ Fails("get_members")
             /\ requests' = requests \cup {"members"}
             /\ UNCHANGED <<trello_member_id_to_username, target_lists, logged>>
        ELSE IF ~lists_ok
        THEN /\ Fails("get_lists")
             /\ requests' = requests \cup {"members", "lists"}
             /\ trello_member_id_to_username' = directory
             /\ UNCHANGED <<target_lists, logged>>
        ELSE /\ requests' = requests \cup {"members", "lists"}
             /\ trello_member_id_to_username' = directory
             /\ IF action = "PendingReviews" /\ review_lists = {}
                THEN /\ logged' = logged \cup {"no review lists"}
                     /\ pc' = "done"
                     /\ UNCHANGED <<target_lists, error>>
                ELSE /\ target_lists' =
                          FilterLists(BoardLists,
                                      IF action = "PendingReviews"
                                      THEN review_lists ELSE inactive_cards_lists)
                     /\ pc' = "next_list"
                     /\ UNCHANGED <<logged, error>>
    /\ UNCHANGED <<list_idx, cards, card_idx, buckets, todo, sent, cards_seen>>
    /\ config_unchanged

\* trello_client.get_cards(&list.id).await? for the next list in scope
FetchCards ==
    /\ pc = "next_list"
    /\ list_idx <= Len(target_lists)
    /\ requests' = requests \cup {"cards"}
    /\ \E ok \in BOOLEAN,
          response \in Responses(target_lists[list_idx].id, MaxCards - cards_seen) :
        IF ~ok
        THEN /\ Fails("get_cards")
             /\ UNCHANGED <<cards, list_idx, cards_seen>>
        ELSE IF response = <<>>
        THEN /\ list_idx' = list_idx + 1
             /\ UNCHANGED <<cards, pc, error, cards_seen>>
        ELSE /\ cards' = SortCards(response)
             /\ cards_seen' = cards_seen + Len(response)
             /\ pc' = "cards"
             /\ UNCHANGED <<list_idx, error>>
    /\ UNCHANGED <<trello_member_id_to_username, target_lists, card_idx, buckets,
                   todo, sent, logged>>
    /\ config_unchanged

\* the end of one iteration of `for card in &cards`
NextCard ==
    IF card_idx = Len(cards)
    THEN /\ cards' = <<>>
         /\ card_idx' = 1
         /\ list_idx' = list_idx + 1
         /\ pc' = "next_list"
    ELSE /\ card_idx' = card_idx + 1
         /\ UNCHANGED <<cards, list_idx, pc>>

LogUnknownMembers(card) ==
    logged' = IF UnknownMembers(card.id_members, trello_member_id_to_username) = {}
              THEN logged ELSE logged \cup {"unknown member"}

\* get_pending_reviews: one iteration of `for card in &cards`
ProcessPendingCard ==
    /\ pc = "cards"
    /\ action = "PendingReviews"
    /\ \E now_utc \in Clock :
        LET card == cards[card_idx]
        IN  /\ LogUnknownMembers(card)
            /\ buckets' = PendingReviewsOfCard(buckets, card,
                                               trello_member_id_to_username, now_utc)
    /\ NextCard
    /\ UNCHANGED <<trello_member_id_to_username, target_lists, error, todo, sent,
                   requests, cards_seen>>
    /\ config_unchanged

\* get_inactive_cards: one iteration of `for card in &cards`
ProcessInactiveCard ==
    /\ pc = "cards"
    /\ action = "InactiveCards"
    /\ \E now_utc \in Clock :
        LET card == cards[card_idx]
            step == InactiveCardsOfCard(buckets, card, trello_member_id_to_username,
                                        now_utc, debug_assertions)
        IN  /\ LogUnknownMembers(card)
            /\ buckets' = step.map
            /\ CASE step.ends = "Continue" -> NextCard /\ UNCHANGED error
                 [] step.ends = "ReturnErr" ->
                        /\ Fails("moved_to_list_date")
                        /\ UNCHANGED <<cards, card_idx, list_idx>>
                 [] OTHER ->
                        /\ pc' = "panicked"
                        /\ UNCHANGED <<cards, card_idx, list_idx, error>>
    /\ UNCHANGED <<trello_member_id_to_username, target_lists, todo, sent,
                   requests, cards_seen>>
    /\ config_unchanged

\* the aggregator returns Ok(map): `for (trello_user, items) in map` begins
StartDispatch ==
    /\ pc = "next_list"
    /\ list_idx > Len(target_lists)
    /\ pc' = "dispatch"
    /\ todo' = DOMAIN buckets
    /\ UNCHANGED <<trello_member_id_to_username, target_lists, error, list_idx,
                   cards, card_idx, buckets, sent, requests, cards_seen, logged>>
    /\ config_unchanged

\* mutant: a user without a chat identity is addressed by the board username
Mutant_get(map, key) == IF key \in DOMAIN map THEN map[key] ELSE key

\* trello_to_slack_mapping.get(&trello_user): Some(slack_user) or None
get(map, key) == IF key \in DOMAIN map THEN map[key] ELSE None

\* one iteration of the loop of pending_reviews or inactive_cards over the
\* map, in the map's arbitrary order; the composer may panic and
\* post_message may fail
DispatchTo(trello_user, post_ok, compose(_)) ==
    /\ todo' = todo \ {trello_user}
    /\ IF buckets[trello_user] = <<>>
       THEN UNCHANGED <<pc, error, sent, logged>>
       ELSE IF get(trello_to_slack_mapping, trello_user) = None
       THEN /\ logged' = logged \cup {"no slack user"}
            /\ UNCHANGED <<pc, error, sent>>
       ELSE IF compose(buckets[trello_user]).kind = "Panic"
       THEN /\ pc' = "panicked"
            /\ UNCHANGED <<error, sent, logged>>
       ELSE IF post_ok
       THEN /\ sent' = Append(sent,
                         [channel |-> get(trello_to_slack_mapping, trello_user),
                          markdown_text |-> compose(buckets[trello_user])])
            /\ UNCHANGED <<pc, error, logged>>
       ELSE /\ Fails("post_message")
            /\ UNCHANGED <<sent, logged>>
    /\ UNCHANGED <<trello_member_id_to_username, target_lists, list_idx, cards,
                   card_idx, buckets, requests, cards_seen>>
    /\ config_unchanged

DispatchPendingReviews ==
    /\ pc = "dispatch"
    /\ action = "PendingReviews"
    /\ \E trello_user \in todo, post_ok \in BOOLEAN :
        DispatchTo(trello_user, post_ok, compose_pending_reviews_message)

DispatchInactiveCards ==
    /\ pc = "dispatch"
    /\ action = "InactiveCards"
    /\ \E trello_user \in todo, post_ok \in BOOLEAN :
        DispatchTo(trello_user, post_ok, compose_inactive_cards_message)

\* the loop over the map is over: Ok(())
Finish ==
    /\ pc = "dispatch"
    /\ todo = {}
    /\ pc' = "done"
    /\ UNCHANGED <<trello_member_id_to_username, target_lists, error, list_idx,
                   cards, card_idx, buckets, todo, sent, requests, cards_seen,
                   logged>>
    /\ config_unchanged

Next ==
    \/ Main
    \/ FetchCards
    \/ ProcessPendingCard
    \/ ProcessInactiveCard
    \/ StartDispatch
    \/ DispatchPendingReviews
    \/ DispatchInactiveCards
    \/ Finish

Spec == Init /\ [][Next]_vars

----------------------------------------------------------------------------
(* The composers as pure functions: every Vec of items a bucket can hold *)

\* most items of a bucket
MaxItems == 3

\* the elapsed days a pending review can hold: any whole number of days, and
\* the wrapped value of a last activity after now_utc()
PendingDays == {0, 1, 3, 5, USIZE_MAX}

\* the elapsed weeks an inactive card can hold: at least the threshold
InactiveWeeks == {INACTIVE_WEEKS_THRESHOLD, 3, 5, USIZE_MAX}

\* the buckets of n items; the k-th item is of the k-th card
PendingReviewVecs(n) ==
    {[k \in 1..n |-> [card_name |-> <<"L1", k>>,
                      card_url |-> <<"https://trello.com/c", "L1", k>>,
                      pending_since_days |-> f[k]]] : f \in [1..n -> PendingDays]}

InactiveCardVecs(n) ==
    {[k \in 1..n |-> [card_name |-> <<"L1", k>>,
                      card_url |-> <<"https://trello.com/c", "L1", k>>,
                      pending_since_weeks |-> f[k]]] : f \in [1..n -> InactiveWeeks]}

InitCompose ==
    /\ debug_assertions \in BOOLEAN
    /\ r_card = IdleCard
    /\ r_result = NotCalled
    /\ c_composer \in {"compose_pending_reviews_message",
                       "compose_inactive_cards_message"}
    /\ c_items \in UNION {IF c_composer = "compose_pending_reviews_message"
                          THEN PendingReviewVecs(n) ELSE InactiveCardVecs(n)
                             : n \in 1..MaxItems}
    /\ c_message = NotCalled
    /\ RunIdle

\* a call of compose_pending_reviews_message(pending_reviews)
ComposePendingReviews ==
    /\ c_composer = "compose_pending_reviews_message"
    /\ c_message = NotCalled
    /\ c_message' = compose_pending_reviews_message(c_items)
    /\ UNCHANGED <<debug_assertions, r_card, r_result, c_composer, c_items,
                   run_vars>>

\* a call of compose_inactive_cards_message(inactive_cards)
ComposeInactiveCards ==
    /\ c_composer = "compose_inactive_cards_message"
    /\ c_message = NotCalled
    /\ c_message' = compose_inactive_cards_message(c_items)
    /\ UNCHANGED <<debug_assertions, r_card, r_result, c_composer, c_items,
                   run_vars>>

NextCompose ==
    \/ ComposePendingReviews
    \/ ComposeInactiveCards

SpecCompose == InitCompose /\ [][NextCompose]_vars

----------------------------------------------------------------------------
(* Claims about the composers, checked under SpecCompose *)

\* the elapsed measure of an item of the composer that is called
Elapsed(item) ==
    IF c_composer = "compose_pending_reviews_message"
    THEN item.pending_since_days ELSE item.pending_since_weeks

\* the place in c_items of the item of line k (the items of c_items differ
\* in their card names)
Origin(k) == CHOOSE i \in 1..Len(c_items) : c_items[i] = c_message.lines[k]

\* C11: in every message a composer returns, the lines are the input items,
\* each exactly once, in descending order of elapsed measure, and items with
\* equal elapsed measure are in their input order.
C11_SortedStablePermutation ==
    c_message.kind = "Ok" =>
        LET lines == c_message.lines
        IN  /\ Len(lines) = Len(c_items)
            /\ \A k \in 1..Len(lines) : lines[k] \in {c_items[i] : i \in 1..Len(c_items)}
            /\ \A k, m \in 1..Len(lines) : k # m => lines[k] # lines[m]
            /\ \A k, m \in 1..Len(lines) :
                  k < m => /\ Elapsed(lines[k]) >= Elapsed(lines[m])
                           /\ Elapsed(lines[k]) = Elapsed(lines[m])
                                 => Origin(k) < Origin(m)

\* elapsed measures [1, 5, 3] are rendered in the order [5, 3, 1]
C11_Witness ==
    /\ c_message.kind = "Ok"
    /\ [k \in 1..Len(c_items) |-> Elapsed(c_items[k])] = <<1, 5, 3>>
    /\ [k \in 1..Len(c_message.lines) |-> Elapsed(c_message.lines[k])] = <<5, 3, 1>>

\* C12: the header of every message a composer returns states the number of
\* input items, in the singular form ("ausstehendes Review"; "Karte ist")
\* for one item and in the plural form ("ausstehende Reviews"; "Karten
\* sind") for two or more.
C12_HeaderCountAndNumber ==
    c_message.kind = "Ok" =>
        LET header == c_message.header
            len == Len(c_items)
        IN  /\ header.number = len
            /\ c_composer = "compose_pending_reviews_message" =>
                  /\ len = 1 => header.s1 = "s" /\ header.s2 = ""
                  /\ len >= 2 => header.s1 = "" /\ header.s2 = "s"
            /\ c_composer = "compose_inactive_cards_message" =>
                  /\ len = 1 => header.n = "" /\ header.is = "ist"
                  /\ len >= 2 => header.n = "n" /\ header.is = "sind"

\* the message for a bucket of one pending review has the singular header
C12_Witness ==
    /\ c_composer = "compose_pending_reviews_message"
    /\ Len(c_items) = 1
    /\ c_message.kind = "Ok"
    /\ c_message.header = [number |-> 1, s1 |-> "s", s2 |-> ""]

\* C13: for every input, whatever its elapsed measures, the composer returns
\* a message in which the line of a pending review has elapsed days - 1
\* markers, none at 0 or 1 day, and the line of an inactive card has elapsed
\* weeks - 2 markers; the number is never negative and never wrapped.
C13_MarkerCount ==
    c_message # NotCalled =>
        /\ c_message.kind = "Ok"
        /\ \A k \in 1..Len(c_message.lines) :
              LET e == Elapsed(c_message.lines[k])
              IN  c_message.sirens[k] =
                      IF c_composer = "compose_pending_reviews_message"
                      THEN (IF e <= 1 THEN 0 ELSE e - 1)
                      ELSE (IF e <= 2 THEN 0 ELSE e - 2)

----------------------------------------------------------------------------
(* Claims about the aggregators, checked under Spec *)

Abs(x) == IF x < 0 THEN -x ELSE x

\* the card the next iteration of `for card in &cards` works on
CurrentCard == cards[card_idx]

\* the users the resolvable member identifiers of a card map to, as a set
ResolvedUsers(card) ==
    {trello_member_id_to_username[m] :
        m \in {card.id_members[i] : i \in 1..Len(card.id_members)}
                \cap DOMAIN trello_member_id_to_username}

BucketOf(map, u) == IF u \in DOMAIN map THEN map[u] ELSE <<>>

\* the entries a step appended to the bucket of u
NewItems(u) ==
    SubSeq(BucketOf(buckets', u), Len(BucketOf(buckets, u)) + 1,
           Len(BucketOf(buckets', u)))

\* the users whose bucket a step changed
Grown == {u \in DOMAIN buckets' : BucketOf(buckets', u) # BucketOf(buckets, u)}

\* C5: every elapsed measure the aggregator stores is non-negative and is the
\* number of whole days (weeks) between the reference time and the time of
\* the computation, truncated; 0 when the two are equal.
C5_ElapsedIsWholeUnits ==
    [][pc = "cards" =>
        \A u \in DOMAIN buckets' : \A k \in 1..Len(NewItems(u)) :
            \E t \in Clock :
                IF action = "PendingReviews"
                THEN /\ NewItems(u)[k].pending_since_days >= 0
                     /\ NewItems(u)[k].pending_since_days =
                          Abs(TruncDiv(t - CurrentCard.date_last_activity, 86400))
                ELSE /\ NewItems(u)[k].pending_since_weeks >= 0
                     /\ NewItems(u)[k].pending_since_weeks =
                          Abs(TruncDiv(t - moved_to_list_date(CurrentCard,
                                                             debug_assertions).date,
                                       604800))]_vars

\* C6: in the inactive-cards aggregation a card with a resolved user and a
\* resolved list-entry time is attached to the bucket of every resolved user
\* when its elapsed weeks are at least 2 and to no bucket when they are
\* less, so every entry of every bucket has pending_since_weeks >= 2.
C6_StepAtThreshold ==
    (/\ pc = "cards"
     /\ action = "InactiveCards"
     /\ ResolvedUsers(CurrentCard) # {}
     /\ moved_to_list_date(CurrentCard, debug_assertions).kind = "Ok")
        => \E t \in Clock :
            LET weeks == pending_since_weeks(
                             t, moved_to_list_date(CurrentCard, debug_assertions).date)
            IN  IF weeks >= 2
                THEN \A u \in ResolvedUsers(CurrentCard) :
                        /\ NewItems(u) # <<>>
                        /\ \A k \in 1..Len(NewItems(u)) :
                              /\ NewItems(u)[k].card_name = CurrentCard.name
                              /\ NewItems(u)[k].pending_since_weeks = weeks
                ELSE buckets' = buckets

C6_ThresholdFilter ==
    /\ [](action = "InactiveCards" =>
            \A u \in DOMAIN buckets : \A i \in 1..Len(buckets[u]) :
                buckets[u][i].pending_since_weeks >= 2)
    /\ [][C6_StepAtThreshold]_vars

\* a card with exactly 2 weeks is in the bucket of its two users, and another
\* card whose members resolve (nothing was logged) is in no bucket
C6_Witness ==
    /\ action = "InactiveCards"
    /\ pc = "next_list"
    /\ cards_seen = 2
    /\ logged = {}
    /\ DOMAIN buckets = {"alice", "bob"}
    /\ \A u \in DOMAIN buckets :
          Len(buckets[u]) = 1 /\ buckets[u][1].pending_since_weeks = 2

\* C7: in the pending-reviews aggregation every card with a resolved user is
\* attached to the bucket of every one of its resolved users, whatever its
\* elapsed days, 0 included, and the days are those since the card's
\* last-activity timestamp, not since anything of its action history.
C7_StepPending ==
    (pc = "cards" /\ action = "PendingReviews")
        => \E t \in Clock :
            \A u \in ResolvedUsers(CurrentCard) :
                /\ NewItems(u) # <<>>
                /\ \A k \in 1..Len(NewItems(u)) :
                      NewItems(u)[k] =
                          [card_name |-> CurrentCard.name,
                           card_url |-> CurrentCard.url,
                           pending_since_days |->
                               AsUsize(TruncDiv(t - CurrentCard.date_last_activity,
                                                86400))]

C7_PendingNoThreshold == [][C7_StepPending]_vars

\* a card with 0 elapsed days is in a bucket
C7_Witness ==
    /\ action = "PendingReviews"
    /\ \E u \in DOMAIN buckets : \E i \in 1..Len(buckets[u]) :
          buckets[u][i].pending_since_days = 0

C9_StepUnknownMember ==
    pc = "cards" =>
        /\ Grown \subseteq ResolvedUsers(CurrentCard)
        /\ \A u \in Grown : \A k \in 1..Len(NewItems(u)) :
              NewItems(u)[k].card_name = CurrentCard.name
        /\ action = "PendingReviews" => Grown = ResolvedUsers(CurrentCard)
        /\ action = "InactiveCards" => Grown \in {{}, ResolvedUsers(CurrentCard)}
        /\ ResolvedUsers(CurrentCard) = {} =>
              buckets' = buckets /\ pc' \in {"cards", "next_list"}
        /\ pc' = "failed" =>
              /\ action = "InactiveCards"
              /\ ResolvedUsers(CurrentCard) # {}
              /\ moved_to_list_date(CurrentCard, debug_assertions).kind = "Err"
        /\ pc' = "panicked" =>
              /\ action = "InactiveCards"
              /\ ResolvedUsers(CurrentCard) # {}
              /\ moved_to_list_date(CurrentCard, debug_assertions).kind = "Panic"

C9_MessagesFromBuckets ==
    \A n \in 1..Len(sent) :
        \E u \in DOMAIN buckets :
            /\ u \in DOMAIN trello_to_slack_mapping
            /\ sent[n].channel = trello_to_slack_mapping[u]
            /\ \A k \in 1..Len(sent[n].markdown_text.lines) :
                  \E i \in 1..Len(buckets[u]) :
                      sent[n].markdown_text.lines[k] = buckets[u][i]

C9_UnknownMemberExcluded ==
    /\ []C9_MessagesFromBuckets
    /\ [][C9_StepUnknownMember]_vars

\* a run over one card with an unknown and a known member: the error is
\* logged, the card is in the bucket of the known member only, and the run
\* completes with one message
C9_Witness ==
    /\ action = "PendingReviews"
    /\ pc = "done"
    /\ cards_seen = 1
    /\ "unknown member" \in logged
    /\ DOMAIN buckets = {"bob"}
    /\ Len(sent) = 1

\* C10: in the inactive-cards action, when moved_to_list_date returns an
\* error for a card with a resolved user, the run ends with that error at
\* that card, no message has been sent and none is sent afterwards.
C10_StepDecodeError ==
    (/\ pc = "cards"
     /\ action = "InactiveCards"
     /\ ResolvedUsers(CurrentCard) # {}
     /\ moved_to_list_date(CurrentCard, debug_assertions).kind = "Err")
        => /\ pc' = "failed"
           /\ error' = "moved_to_list_date"
           /\ sent' = <<>>
           /\ buckets' = buckets

C10_DecodeErrorAbortsRun ==
    /\ [](error = "moved_to_list_date" => pc = "failed" /\ sent = <<>>)
    /\ [][C10_StepDecodeError /\ pc # "failed"]_vars

\* the run failed at a card after an earlier card had filled a bucket
C10_Witness ==
    /\ error = "moved_to_list_date"
    /\ pc = "failed"
    /\ DOMAIN buckets # {}
    /\ sent = <<>>

----------------------------------------------------------------------------
(* Claims about main and the dispatch loops, checked under Spec *)

\* the users the dispatch loop has not visited whose bucket would be composed
\* and sent
Unattempted ==
    {u \in todo : buckets[u] # <<>> /\ u \in DOMAIN trello_to_slack_mapping}

\* C14: a failed send to one user does not end the dispatch: when the run
\* has ended with the error of a send, no user with a non-empty bucket and a
\* chat identity is left without an attempt.
C14_SendFailureIsolated ==
    error = "post_message" => Unattempted = {}

\* the list scope of the configured action
ActionScope ==
    IF action = "PendingReviews" THEN review_lists ELSE inactive_cards_lists

\* C15: with an empty list scope for the configured action, main ends
\* successfully having logged an error, without any board-service request,
\* without a message and without an error.
C15_EmptyScopeNoWork ==
    (ActionScope = {} /\ pc # "main")
        => /\ pc = "done"
           /\ error = None
           /\ requests = {}
           /\ sent = <<>>
           /\ logged # {}

\* C16: every bucket of the aggregator holds at least one item from the
\* moment it is created, and every message sent was composed from at least
\* one item.
C16_NoEmptyBucket ==
    /\ \A u \in DOMAIN buckets : buckets[u] # <<>>
    /\ \A n \in 1..Len(sent) :
          /\ sent[n].markdown_text.count >= 1
          /\ Len(sent[n].markdown_text.lines) = sent[n].markdown_text.count

\* an inactive-cards run over two cards of which one made no bucket entry:
\* the only bucket holds one item and its message is sent
C16_Witness ==
    /\ action = "InactiveCards"
    /\ pc = "done"
    /\ cards_seen = 2
    /\ DOMAIN buckets = {"bob"}
    /\ Len(buckets["bob"]) = 1
    /\ Len(sent) = 1

\* the user an iteration of the dispatch loop visits
Visited == CHOOSE u \in todo : u \notin todo'

\* C17: a message goes only to the chat identity of a user with a non-empty
\* bucket, no two messages go to the same user, and the iteration for a user
\* with a non-empty bucket and no chat identity logs that, sends nothing and
\* leaves the loop running.
C17_StepDispatch ==
    (pc = "dispatch" /\ todo' # todo) =>
        /\ sent' # sent =>
              /\ buckets[Visited] # <<>>
              /\ Visited \in DOMAIN trello_to_slack_mapping
              /\ Len(sent') = Len(sent) + 1
              /\ sent'[Len(sent')].channel = trello_to_slack_mapping[Visited]
              /\ SubSeq(sent', 1, Len(sent)) = sent
        /\ (buckets[Visited] # <<>> /\ Visited \notin DOMAIN trello_to_slack_mapping) =>
              /\ sent' = sent
              /\ "no slack user" \in logged'
              /\ pc' = "dispatch"
              /\ error' = error

C17_SendOnlyToMappedUsers ==
    /\ [](\A n \in 1..Len(sent) :
            /\ \E u \in DOMAIN buckets \cap DOMAIN trello_to_slack_mapping :
                  /\ buckets[u] # <<>>
                  /\ u \notin todo
                  /\ sent[n].channel = trello_to_slack_mapping[u]
            /\ \A m \in 1..Len(sent) : sent[m].channel = sent[n].channel => m = n)
    /\ [][C17_StepDispatch]_vars

\* bob has a bucket and no chat identity: the run completes, bob's skip is
\* logged and the only message is the one for alice
C17_Witness ==
    /\ pc = "done"
    /\ DOMAIN buckets = {"alice", "bob"}
    /\ DOMAIN trello_to_slack_mapping = {"alice"}
    /\ "no slack user" \in logged
    /\ Len(sent) = 1
    /\ sent[1].channel = "U_ALICE"

====
